---- MODULE Spec2Model ----
(***************************************************************************)
(* A model of chamomile's per-connection session (src/src/session.rs), of  *)
(* the NAT resolver and the DHT codec (src/src/hole_punching.rs) and of    *)
(* the signatures (src/types/src/key.rs).                                  *)
(*                                                                         *)
(* A session is a record; every handler of the session's event loop is an  *)
(* operator from the session (and the event) to an effect: the session     *)
(* after the handler, and the messages the handler sent on the transport   *)
(* (endpoint_send), to the registry (server_send), upward (out_sender)     *)
(* and into other sessions' command channels (the relay).                  *)
(***************************************************************************)
EXTENDS Integers, Sequences, FiniteSets, TLC

(***************************************************************************)
(* Bounds of the model.                                                    *)
(***************************************************************************)
MaxOut == 5
MaxBuf == 2
MaxIn == 2
MaxSrv == 3
MaxPort == 3
MaxSubmit == 2
MaxRelay == 1
ChanCap == 1
MaxFrames == 2

(***************************************************************************)
(* Values.                                                                 *)
(***************************************************************************)
PeerIds == {"A", "B", "C"}
Payloads == {"p1", "p2"}
Transports == {"TCP", "UDP", "RTP"}
Hosts == {"h1", "h2"}
Ports == 1..MaxPort

NoPeer == "none"

SocketAddr(h, p) == [host |-> h, port |-> p]

Peer(i, a, t, pub) == [id |-> i, addr |-> a, transport |-> t, is_pub |-> pub]

set_addr(peer, a) == [peer EXCEPT !.addr = a]

set_is_pub(peer, b) == [peer EXCEPT !.is_pub = b]

set_port(a, p) == [a EXCEPT !.port = p]

(***************************************************************************)
(* hole_punching.rs: nat.  The port of the observed address is overridden  *)
(* for TCP; the descriptor's address is then set, and the flag is computed *)
(* from the descriptor AFTER its address was set.                          *)
(***************************************************************************)
\* nat without the TCP override of the observed port.
nat_NoOverride(remote_addr, local) ==
    LET local1 == set_addr(local, remote_addr)
    IN  set_is_pub(local1, remote_addr.port = local1.addr.port)

nat(remote_addr, local) ==
    LET remote_addr1 == IF local.transport = "TCP"
                        THEN set_port(remote_addr, local.addr.port)
                        ELSE remote_addr
        local1 == set_addr(local, remote_addr1)
    IN  set_is_pub(local1, remote_addr1.port = local1.addr.port)

(***************************************************************************)
(* The transport's events and the wire frames.  A byte blob is the frame   *)
(* it encodes, under its tag t; a blob whose tag is no variant of the      *)
(* decoded type does not decode.                                           *)
(***************************************************************************)
Bytes(b) == [ev |-> "Bytes", b |-> b]

EpClose == [ev |-> "Close"]

EpOther == [ev |-> "Other"]

RemotePublic(k, peer, data) ==
    [t |-> "RemotePublic", key |-> k, peer |-> peer, data |-> data]

SessionTypeTags == {"Key", "Data", "DHT", "Hole", "HoleConnect", "Ping", "Pong"}

STKey(bytes) == [t |-> "Key", bytes |-> bytes]

STData(from, to, e_data) == [t |-> "Data", from |-> from, to |-> to, e_data |-> e_data]

STDHT(peers, sign) == [t |-> "DHT", peers |-> peers, sign |-> sign]

STPing == [t |-> "Ping"]

STPong == [t |-> "Pong"]

STHoleConnect == [t |-> "HoleConnect"]

Garbage == [t |-> "Garbage"]

\* SessionType::from_bytes(bytes).is_ok()
SessionType_from_bytes_ok(bytes) == bytes.t \in SessionTypeTags

\* RemotePublic::from_bytes(key, bytes).is_ok()
RemotePublic_from_bytes_ok(bytes) == bytes.t = "RemotePublic"

(***************************************************************************)
(* Messages between a session and the registry.                            *)
(***************************************************************************)
Connected(id, sender, peer, data, ok) ==
    [m |-> "Connected", id |-> id, sender |-> sender, peer |-> peer,
     data |-> data, is_ok |-> ok]

SrvClose(id) == [m |-> "Close", id |-> id]

SrvConnect(a) == [m |-> "Connect", addr |-> a]

CmdOk(data, stable) == [c |-> "Ok", data |-> data, is_stable |-> stable]

CmdClose == [c |-> "Close"]

CmdBytes(from, to, bytes) == [c |-> "Bytes", from |-> from, to |-> to, bytes |-> bytes]

\* ReceiveMessage::Data(from, bytes), delivered upward
RecvData(from, bytes) == [from |-> from, bytes |-> bytes]

(***************************************************************************)
(* The key exchange of one connection (crate::keys, not among the sources: *)
(* modelled from the specification's section 4.2).  Each side's            *)
(* key-material names its owner; the exchange becomes ready when the       *)
(* remote side's key-material is consumed; a ciphertext names the pair of  *)
(* peers whose key made it and decrypts only under that key.               *)
(***************************************************************************)
KeyMaterial(p) == [km |-> p]

BadKeyMaterial == [km |-> "bad"]

session_key(me, remote) == [ready |-> FALSE, me |-> me, remote |-> remote]

is_ok(sk) == sk.ready

in_bytes_ok(sk, bytes) == bytes = KeyMaterial(sk.remote)

in_bytes(sk, bytes) == IF in_bytes_ok(sk, bytes) THEN [sk EXCEPT !.ready = TRUE] ELSE sk

out_bytes(sk) == KeyMaterial(sk.me)

encrypt(sk, bytes) == [k |-> {sk.me, sk.remote}, p |-> bytes]

decrypt_ok(sk, e_data) == e_data.k = {sk.me, sk.remote}

decrypt(sk, e_data) == e_data.p

BadCipher(p) == [k |-> {"bad"}, p |-> p]

(***************************************************************************)
(* The registry's peer list as a session reads it (crate::peer_list, not   *)
(* among the sources): pl is the set of peer ids with a live channel.      *)
(***************************************************************************)
PeerOf(i) == Peer(i, SocketAddr("h1", 1), "TCP", FALSE)

PeerOrder == <<"A", "B", "C">>

pl_get(pl, to) == to \in pl

pl_get_it(pl, id) == id \in pl

get_dht_help(pl, remote) ==
    LET InList(p) == p \in pl /\ p # remote
        ids == SelectSeq(PeerOrder, InList)
    IN  [i \in 1..Len(ids) |-> PeerOf(ids[i])]

(***************************************************************************)
(* session.rs: start.  The session's local state, and the effect of one    *)
(* handler.                                                                *)
(***************************************************************************)
NewSession(me, ok) ==
    [pc |-> "handshake", is_ok |-> ok, me |-> me, remote_peer_id |-> NoPeer,
     session_key |-> session_key(me, NoPeer),
     buffers |-> << >>, receiver_buffers |-> << >>]

\* What a handler does: the session it leaves, what it writes to the
\* connection, to the registry, upward and to another session's command
\* channel, and the order in which it writes to these.  A handler writes to
\* the connection first unless it says otherwise.
Eff(s, ep, srv, out, relay) ==
    [s |-> s, ep |-> ep, srv |-> srv, out |-> out, relay |-> relay,
     order |-> (IF ep = << >> THEN << >> ELSE <<"ep">>)
               \o (IF srv = << >> THEN << >> ELSE <<"srv">>)
               \o (IF out = << >> THEN << >> ELSE <<"out">>)
               \o (IF relay = << >> THEN << >> ELSE <<"relay">>)]

Done(s) == [s EXCEPT !.pc = "done"]

\* The handshake's read: a timeout is an error; the channel ending, an event
\* that is no byte blob and a blob that does not decode are all "no key".
HandshakeFails(ev) ==
    \/ ev.ev = "Timeout"
    \/ ev.ev = "End"
    \/ ev.ev # "Bytes"
    \/ ev.ev = "Bytes" /\ ~RemotePublic_from_bytes_ok(ev.b)

\* The handshake, terminating on a failure without closing the transport.
Handshake_NoClose(s, sid, remote_addr, ev) ==
    IF HandshakeFails(ev)
    THEN Eff(Done(s), << >>, << >>, << >>, << >>)
    ELSE Eff([s EXCEPT !.pc = "loop",
                       !.remote_peer_id = ev.b.key,
                       !.session_key = session_key(s.me, ev.b.key)],
             << >>,
             <<Connected(ev.b.key, sid, nat(remote_addr, ev.b.peer), ev.b.data, s.is_ok)>>,
             << >>, << >>)

Handshake(s, sid, remote_addr, ev) ==
    IF HandshakeFails(ev)
    THEN Eff(Done(s), <<EpClose>>, << >>, << >>, << >>)
    ELSE LET remote_peer_id == ev.b.key
             remote_transport == nat(remote_addr, ev.b.peer)
         IN  Eff([s EXCEPT !.pc = "loop",
                           !.remote_peer_id = remote_peer_id,
                           !.session_key = session_key(s.me, remote_peer_id)],
                 << >>,
                 <<Connected(remote_peer_id, sid, remote_transport, ev.b.data, s.is_ok)>>,
                 << >>, << >>)

(***************************************************************************)
(* Inbound SessionType frames (session.rs 131-245).                        *)
(***************************************************************************)
\* The flush, leaving out the payload that was buffered first.
FlushBuffers_DropOldest(sk, my_peer_id, buffers) ==
    [i \in 1..(Len(buffers) - 1) |->
        LET e == buffers[Len(buffers) + 1 - i]
        IN  Bytes(STData(my_peer_id, e[1], encrypt(sk, e[2])))]

\* The flush, sending the payloads in the order they were buffered.
FlushBuffers_Fifo(sk, my_peer_id, buffers) ==
    [i \in 1..Len(buffers) |->
        Bytes(STData(my_peer_id, buffers[i][1], encrypt(sk, buffers[i][2])))]

\* while !buffers.is_empty() { pop; send Data(my_peer_id, peer_id, encrypt(bytes)) }
FlushBuffers(sk, my_peer_id, buffers) ==
    [i \in 1..Len(buffers) |->
        LET e == buffers[Len(buffers) + 1 - i]
        IN  Bytes(STData(my_peer_id, e[1], encrypt(sk, e[2])))]

\* while !receiver_buffers.is_empty() { pop; decrypt; deliver when it decrypts }
FlushReceiverBuffers(sk, remote_peer_id, receiver_buffers) ==
    LET rev == [i \in 1..Len(receiver_buffers) |->
                    receiver_buffers[Len(receiver_buffers) + 1 - i]]
        Good(e) == decrypt_ok(sk, e)
        good == SelectSeq(rev, Good)
    IN  [i \in 1..Len(good) |-> RecvData(remote_peer_id, decrypt(sk, good[i]))]

\* The Key handler, consuming the peer's key-material without answering with
\* its own.
OnKey_NoReply(s, bytes) ==
    IF ~is_ok(s.session_key) /\ ~in_bytes_ok(s.session_key, bytes)
    THEN Eff(Done(s), <<EpClose>>, <<SrvClose(s.remote_peer_id)>>, << >>, << >>)
    ELSE LET sk == IF ~is_ok(s.session_key)
                   THEN in_bytes(s.session_key, bytes) ELSE s.session_key
         IN  Eff([s EXCEPT !.session_key = sk, !.buffers = << >>,
                           !.receiver_buffers = << >>],
                 FlushBuffers(sk, s.me, s.buffers), << >>,
                 FlushReceiverBuffers(sk, s.remote_peer_id, s.receiver_buffers), << >>)

\* The Key handler, writing its own key-material before it looks at the
\* peer's.
OnKey_ReplyThenReject(s, bytes) ==
    IF ~is_ok(s.session_key) /\ ~in_bytes_ok(s.session_key, bytes)
    THEN [Eff(Done(s), <<Bytes(STKey(out_bytes(s.session_key))), EpClose>>,
              <<SrvClose(s.remote_peer_id)>>, << >>, << >>)
            EXCEPT !.order = <<"ep", "srv", "ep">>]
    ELSE LET sk == IF ~is_ok(s.session_key)
                   THEN in_bytes(s.session_key, bytes) ELSE s.session_key
             own == IF ~is_ok(s.session_key)
                    THEN <<Bytes(STKey(out_bytes(sk)))>> ELSE << >>
         IN  Eff([s EXCEPT !.session_key = sk, !.buffers = << >>,
                           !.receiver_buffers = << >>],
                 own \o FlushBuffers(sk, s.me, s.buffers), << >>,
                 FlushReceiverBuffers(sk, s.remote_peer_id, s.receiver_buffers), << >>)

\* SessionType::Key(bytes)
OnKey(s, bytes) ==
    IF ~is_ok(s.session_key) /\ ~in_bytes_ok(s.session_key, bytes)
    THEN [Eff(Done([s EXCEPT !.session_key = in_bytes(s.session_key, bytes)]),
              <<EpClose>>, <<SrvClose(s.remote_peer_id)>>, << >>, << >>)
            EXCEPT !.order = <<"srv", "ep">>]
    ELSE LET sk == IF ~is_ok(s.session_key)
                   THEN in_bytes(s.session_key, bytes) ELSE s.session_key
             own == IF ~is_ok(s.session_key)
                    THEN <<Bytes(STKey(out_bytes(sk)))>> ELSE << >>
         IN  Eff([s EXCEPT !.session_key = sk,
                           !.buffers = << >>,
                           !.receiver_buffers = << >>],
                 own \o FlushBuffers(sk, s.me, s.buffers),
                 << >>,
                 FlushReceiverBuffers(sk, s.remote_peer_id, s.receiver_buffers),
                 << >>)

\* The Data handler, delivering what is for this node and dropping what is
\* for another peer instead of relaying it.
OnData_NoRelay(s, pl, from, to, e_data) ==
    IF ~is_ok(s.session_key) \/ ~decrypt_ok(s.session_key, e_data)
    THEN Eff(s, << >>, << >>, << >>, << >>)
    ELSE IF to = s.me
         THEN Eff(s, << >>, << >>, <<RecvData(from, decrypt(s.session_key, e_data))>>, << >>)
         ELSE Eff(s, << >>, << >>, << >>, << >>)

\* The Data handler, relaying under this node's id instead of the frame's
\* sender.
OnData_RelayAsSelf(s, pl, from, to, e_data) ==
    IF ~is_ok(s.session_key) \/ ~decrypt_ok(s.session_key, e_data)
    THEN Eff(s, << >>, << >>, << >>, << >>)
    ELSE IF to = s.me
         THEN Eff(s, << >>, << >>, <<RecvData(from, decrypt(s.session_key, e_data))>>, << >>)
         ELSE IF pl_get(pl, to)
              THEN Eff(s, << >>, << >>, << >>,
                       <<[to |-> to,
                          msg |-> CmdBytes(s.me, to, decrypt(s.session_key, e_data))]>>)
              ELSE Eff(s, << >>, << >>, << >>, << >>)

\* SessionType::Data(from, to, e_data)
OnData(s, pl, from, to, e_data) ==
    IF ~is_ok(s.session_key) THEN Eff(s, << >>, << >>, << >>, << >>)
    ELSE IF ~decrypt_ok(s.session_key, e_data) THEN Eff(s, << >>, << >>, << >>, << >>)
    ELSE IF to = s.me
         THEN Eff(s, << >>, << >>, <<RecvData(from, decrypt(s.session_key, e_data))>>, << >>)
         ELSE IF pl_get(pl, to)
              THEN Eff(s, << >>, << >>, << >>,
                       <<[to |-> to,
                          msg |-> CmdBytes(from, to, decrypt(s.session_key, e_data))]>>)
              ELSE Eff(s, << >>, << >>, << >>, << >>)

\* The DHT handler, asking for a connection to this node's own record too.
OnDHT_NoSelfCheck(s, pl, peers) ==
    LET Wanted(p) == ~pl_get_it(pl, p.id)
        wanted == SelectSeq(peers, Wanted)
    IN  Eff(s, << >>, [i \in 1..Len(wanted) |-> SrvConnect(wanted[i].addr)], << >>, << >>)

\* SessionType::DHT(peers, _sign)
OnDHT(s, pl, peers) ==
    LET Wanted(p) == p.id # s.me /\ ~pl_get_it(pl, p.id)
        wanted == SelectSeq(peers, Wanted)
    IN  Eff(s, << >>, [i \in 1..Len(wanted) |-> SrvConnect(wanted[i].addr)], << >>, << >>)

\* The frame decoding, ending the session on a blob that does not decode.
OnBytes_BadFrameEnds(s, pl, bytes) ==
    IF ~SessionType_from_bytes_ok(bytes) THEN Eff(Done(s), << >>, << >>, << >>, << >>)
    ELSE CASE bytes.t = "Key" -> OnKey(s, bytes.bytes)
           [] bytes.t = "Data" -> OnData(s, pl, bytes.from, bytes.to, bytes.e_data)
           [] bytes.t = "DHT" -> OnDHT(s, pl, bytes.peers)
           [] bytes.t = "Ping" -> Eff(s, <<Bytes(STPong)>>, << >>, << >>, << >>)
           [] OTHER -> Eff(s, << >>, << >>, << >>, << >>)

\* match SessionType::from_bytes(bytes)
OnBytes(s, pl, bytes) ==
    IF ~SessionType_from_bytes_ok(bytes) THEN Eff(s, << >>, << >>, << >>, << >>)
    ELSE CASE bytes.t = "Key" -> OnKey(s, bytes.bytes)
           [] bytes.t = "Data" -> OnData(s, pl, bytes.from, bytes.to, bytes.e_data)
           [] bytes.t = "DHT" -> OnDHT(s, pl, bytes.peers)
           [] bytes.t = "Ping" -> Eff(s, <<Bytes(STPong)>>, << >>, << >>, << >>)
           [] OTHER -> Eff(s, << >>, << >>, << >>, << >>)

(***************************************************************************)
(* msg = endpoint_recv.recv() (session.rs 123-257).  ev.ev = "End" is the  *)
(* channel's Err.                                                          *)
(***************************************************************************)
\* The inbound branch, notifying the registry of a transport close without
\* leaving the loop.
OnEndpoint_CloseNoBreak(s, pl, ev) ==
    IF ev.ev = "End" THEN Eff(Done(s), << >>, << >>, << >>, << >>)
    ELSE IF ~s.is_ok THEN Eff(s, << >>, << >>, << >>, << >>)
    ELSE CASE ev.ev = "Bytes" -> OnBytes(s, pl, ev.b)
           [] ev.ev = "Close" ->
                Eff(s, << >>, <<SrvClose(s.remote_peer_id)>>, << >>, << >>)
           [] OTHER -> Eff(Done(s), << >>, << >>, << >>, << >>)

\* The inbound branch without the acceptance gate.
OnEndpoint_NoGate(s, pl, ev) ==
    IF ev.ev = "End" THEN Eff(Done(s), << >>, << >>, << >>, << >>)
    ELSE CASE ev.ev = "Bytes" -> OnBytes(s, pl, ev.b)
           [] ev.ev = "Close" ->
                Eff(Done(s), << >>, <<SrvClose(s.remote_peer_id)>>, << >>, << >>)
           [] OTHER -> Eff(Done(s), << >>, << >>, << >>, << >>)

OnEndpoint(s, pl, ev) ==
    IF ev.ev = "End" THEN Eff(Done(s), << >>, << >>, << >>, << >>)
    ELSE IF ~s.is_ok THEN Eff(s, << >>, << >>, << >>, << >>)
    ELSE CASE ev.ev = "Bytes" -> OnBytes(s, pl, ev.b)
           [] ev.ev = "Close" ->
                Eff(Done(s), << >>, <<SrvClose(s.remote_peer_id)>>, << >>, << >>)
           [] OTHER -> Eff(Done(s), << >>, << >>, << >>, << >>)

(***************************************************************************)
(* out_msg = receiver.recv() (session.rs 258-305).  cmd.c = "End" is the   *)
(* channel's Err.                                                          *)
(***************************************************************************)
\* RelayOrSend, dropping the payload of a session that is not accepted.
OnCmdBytes_AcceptedOnly(s, from, to, bytes) ==
    IF ~s.is_ok THEN Eff(s, << >>, << >>, << >>, << >>)
    ELSE IF is_ok(s.session_key)
    THEN Eff(s, <<Bytes(STData(from, to, encrypt(s.session_key, bytes)))>>,
             << >>, << >>, << >>)
    ELSE Eff([s EXCEPT !.buffers = Append(@, <<to, bytes>>)], << >>, << >>, << >>, << >>)

\* RelayOrSend, encrypting and sending whether or not the exchange is ready.
OnCmdBytes_Always(s, from, to, bytes) ==
    Eff(s, <<Bytes(STData(from, to, encrypt(s.session_key, bytes)))>>, << >>, << >>, << >>)

\* SessionSendMessage::Bytes(from, to, bytes)
OnCmdBytes(s, from, to, bytes) ==
    IF is_ok(s.session_key)
    THEN Eff(s, <<Bytes(STData(from, to, encrypt(s.session_key, bytes)))>>,
             << >>, << >>, << >>)
    ELSE Eff([s EXCEPT !.buffers = Append(@, <<to, bytes>>)], << >>, << >>, << >>, << >>)

\* Accept, turning the acceptance flag over instead of setting it.
OnCmdOk_Toggle(s, pl, data) ==
    Eff([s EXCEPT !.is_ok = ~s.is_ok],
        << Bytes(RemotePublic(s.me, PeerOf(s.me), data)),
           Bytes(STKey(out_bytes(s.session_key))),
           Bytes(STDHT(get_dht_help(pl, s.remote_peer_id), << >>)) >>,
        << >>, << >>, << >>)

\* Accept, writing the key-material before RemotePublic.
OnCmdOk_KeyFirst(s, pl, data) ==
    Eff([s EXCEPT !.is_ok = TRUE],
        << Bytes(STKey(out_bytes(s.session_key))),
           Bytes(RemotePublic(s.me, PeerOf(s.me), data)),
           Bytes(STDHT(get_dht_help(pl, s.remote_peer_id), << >>)) >>,
        << >>, << >>, << >>)

\* SessionSendMessage::Ok(data, _is_stable)
OnCmdOk(s, pl, data) ==
    Eff([s EXCEPT !.is_ok = TRUE],
        << Bytes(RemotePublic(s.me, PeerOf(s.me), data)),
           Bytes(STKey(out_bytes(s.session_key))),
           Bytes(STDHT(get_dht_help(pl, s.remote_peer_id), << >>)) >>,
        << >>, << >>, << >>)

OnCommand(s, pl, cmd) ==
    CASE cmd.c = "End" -> Eff(Done(s), << >>, << >>, << >>, << >>)
      [] cmd.c = "Bytes" -> OnCmdBytes(s, cmd.from, cmd.to, cmd.bytes)
      [] cmd.c = "Ok" -> OnCmdOk(s, pl, cmd.data)
      [] cmd.c = "Close" -> Eff(Done(s), <<EpClose>>, << >>, << >>, << >>)

(***************************************************************************)
(* The state.  Sessions are numbered; session i runs on node SessNode[i]   *)
(* and its connection leads to node SessRemote[i], whose session on the    *)
(* same connection is WirePeer[i].                                         *)
(***************************************************************************)
SessIds == 1..4

SessNode == <<"A", "B", "B", "C">>

SessRemote == <<"B", "A", "C", "B">>

WirePeer == <<2, 1, 4, 3>>

\* The session whose command channel node's registry holds for peer `to`.
SessAt(node, to) == CHOOSE i \in SessIds : SessNode[i] = node /\ SessRemote[i] = to

VARIABLES
    sess,       \* sess[i]: the local state of session i
    ep_out,     \* ep_out[i]: everything written to session i's connection by its node
    srv,        \* srv[i]: the messages session i sent to its registry
    out,        \* out[i]: the messages session i delivered upward
    cmds,       \* cmds[i]: the commands put into session i's command channel
    rd,         \* rd[i]: how many messages of ep_out[WirePeer[i]] session i has read
    crd,        \* crd[i]: how many commands of cmds[i] session i has read
    srd,        \* srd[i]: how many messages of srv[i] the registry has read
    peer_list,  \* peer_list[n]: the peers node n's registry holds a channel for
    nat_addr,   \* the NAT resolver's inputs and its result
    nat_local,
    nat_result,
    fn_in,      \* the input a codec or a signature function is applied to
    fn_out,     \* and what it returned
    sending,    \* sending[i]: the relay session i is in the middle of sending
    last        \* the event the last step handled, and which source it came from

vars == <<sess, ep_out, srv, out, cmds, rd, crd, srd, peer_list,
          nat_addr, nat_local, nat_result, fn_in, fn_out, sending, last>>

natvars == <<nat_addr, nat_local, nat_result, fn_in, fn_out, sending>>

Last(src, ev) == [src |-> src, ev |-> ev, order |-> << >>]

\* The event a step handled, with the order of the handler's writes.
Handled(src, ev, e) == [src |-> src, ev |-> ev, order |-> e.order]

NoEvent == [ev |-> "none"]

Idle(i) == [NewSession(SessNode[i], FALSE) EXCEPT !.pc = "idle"]

\* The effect e of a handler of session i, applied to the state.  A relayed
\* command goes into the channel the registry holds for its target.
Apply(i, e) ==
    /\ sess' = [sess EXCEPT ![i] = e.s]
    /\ ep_out' = [ep_out EXCEPT ![i] = @ \o e.ep]
    /\ srv' = [srv EXCEPT ![i] = @ \o e.srv]
    /\ out' = [out EXCEPT ![i] = @ \o e.out]
    /\ cmds' = IF e.relay = << >> THEN cmds
               ELSE [cmds EXCEPT ![SessAt(SessNode[i], e.relay[1].to)] =
                                     Append(@, e.relay[1].msg)]

\* The model's bounds on the logs.
Within(i, e) ==
    /\ Len(ep_out[i]) + Len(e.ep) <= MaxOut
    /\ Len(srv[i]) + Len(e.srv) <= MaxSrv
    /\ Len(out[i]) + Len(e.out) <= MaxIn
    /\ Len(e.s.buffers) <= MaxBuf
    /\ \A j \in SessIds : Len(cmds[j]) + Len(e.relay) <= MaxIn

(***************************************************************************)
(* Spec: one session, S, on node B, whose transport, registry and peers    *)
(* are the environment: any event may arrive in any order.  The registry   *)
(* holds a channel for A, and for C or not.                                *)
(***************************************************************************)
S == 2

ObservedAddr == SocketAddr("h2", 3)

\* Written on an outgoing connection before its session starts (the dialling
\* side, which starts its session with is_ok = true, is not among the sources;
\* specification section 6: every connection begins with RemotePublic).
DialerPreamble(me, ok) ==
    IF ok THEN <<Bytes(RemotePublic(me, PeerOf(me), "join"))>> ELSE << >>

HandshakeEvents ==
    {[ev |-> "Timeout"], [ev |-> "End"], EpClose, EpOther,
     Bytes(Garbage), Bytes(STPing)}
    \cup {Bytes(RemotePublic("A", Peer("A", SocketAddr("h1", 2), t, FALSE), "join")) :
            t \in {"TCP"}}

GoodCipher(p) == [k |-> {"A", "B"}, p |-> p]

\* A DHT frame naming this node, a peer no registry knows, a peer the
\* registry may know and the remote peer, each at an address of its own.
DhtRecords ==
    << Peer("B", SocketAddr("h1", 2), "TCP", FALSE),
       Peer("D", SocketAddr("h2", 2), "UDP", TRUE),
       Peer("C", SocketAddr("h2", 1), "TCP", FALSE),
       PeerOf("A") >>

BadSign == <<0>>

InboundFrames ==
    {STKey(KeyMaterial("A")), STKey(BadKeyMaterial), STPing, Garbage,
     STDHT(DhtRecords, << >>), STDHT(DhtRecords, BadSign),
     STData("A", "B", GoodCipher("p1")), STData("A", "C", GoodCipher("p1")),
     STData("A", "B", BadCipher("p1"))}

InboundEvents == {[ev |-> "End"], EpClose, EpOther} \cup {Bytes(f) : f \in InboundFrames}

Commands ==
    {[c |-> "End"], CmdClose, CmdOk("app", TRUE)}
    \cup {CmdBytes("B", "A", "p1"), CmdBytes("C", "A", "p2")}

Init ==
    /\ \E ok \in BOOLEAN :
        /\ sess = [i \in SessIds |-> IF i = S THEN NewSession("B", ok) ELSE Idle(i)]
        /\ ep_out = [i \in SessIds |-> IF i = S THEN DialerPreamble("B", ok) ELSE << >>]
    /\ srv = [i \in SessIds |-> << >>]
    /\ out = [i \in SessIds |-> << >>]
    /\ cmds = [i \in SessIds |-> << >>]
    /\ rd = [i \in SessIds |-> 0]
    /\ crd = [i \in SessIds |-> 0]
    /\ srd = [i \in SessIds |-> 0]
    /\ \E pl \in {{"A"}, {"A", "C"}} : peer_list = [n \in PeerIds |-> IF n = "B" THEN pl ELSE {}]
    /\ nat_addr = ObservedAddr
    /\ nat_local = PeerOf("A")
    /\ nat_result = PeerOf("A")
    /\ fn_in = NoEvent
    /\ fn_out = NoEvent
    /\ sending = [i \in SessIds |-> NoEvent]
    /\ last = Last("init", NoEvent)

\* The first read of the session: the handshake.
HandshakeStep ==
    /\ sess[S].pc = "handshake"
    /\ \E ev \in HandshakeEvents :
        \E e \in {Handshake(sess[S], S, ObservedAddr, ev)} :
            Within(S, e) /\ Apply(S, e) /\ last' = Handled("hs", ev, e)
    /\ UNCHANGED <<rd, crd, srd, peer_list, natvars>>

\* One iteration of the loop, on an inbound transport event.
EndpointStep ==
    /\ sess[S].pc = "loop"
    /\ \E ev \in InboundEvents :
        \E e \in {OnEndpoint(sess[S], peer_list["B"], ev)} :
            /\ Within(S, e)
            /\ \A j \in SessIds : Len(cmds[j]) + Len(e.relay) <= MaxRelay
            /\ Apply(S, e)
            /\ last' = Handled("ep", ev, e)
    /\ UNCHANGED <<rd, crd, srd, peer_list, natvars>>

\* One iteration of the loop, on a command of the registry.
CommandStep ==
    /\ sess[S].pc = "loop"
    /\ \E cmd \in Commands :
        \E e \in {OnCommand(sess[S], peer_list["B"], cmd)} :
            Within(S, e) /\ Apply(S, e) /\ last' = Handled("cmd", cmd, e)
    /\ UNCHANGED <<rd, crd, srd, peer_list, natvars>>

Next == HandshakeStep \/ EndpointStep \/ CommandStep

Spec == Init /\ [][Next]_vars

(***************************************************************************)
(* SpecNat: the NAT resolver applied once to every observed address and    *)
(* every claimed descriptor.                                               *)
(***************************************************************************)
InitNat ==
    /\ sess = [i \in SessIds |-> Idle(i)]
    /\ ep_out = [i \in SessIds |-> << >>]
    /\ srv = [i \in SessIds |-> << >>]
    /\ out = [i \in SessIds |-> << >>]
    /\ cmds = [i \in SessIds |-> << >>]
    /\ rd = [i \in SessIds |-> 0]
    /\ crd = [i \in SessIds |-> 0]
    /\ srd = [i \in SessIds |-> 0]
    /\ peer_list = [n \in PeerIds |-> {}]
    /\ \E h \in Hosts, p \in Ports : nat_addr = SocketAddr(h, p)
    /\ \E i \in {"A", "C"}, h \in Hosts, p \in Ports, t \in Transports, b \in BOOLEAN :
        nat_local = Peer(i, SocketAddr(h, p), t, b)
    /\ nat_result = nat_local
    /\ fn_in = NoEvent
    /\ fn_out = NoEvent
    /\ sending = [i \in SessIds |-> NoEvent]
    /\ last = Last("init", NoEvent)

NatStep ==
    /\ last.src = "init"
    /\ nat_result' = nat(nat_addr, nat_local)
    /\ last' = Last("nat", NoEvent)
    /\ UNCHANGED <<sess, ep_out, srv, out, cmds, rd, crd, srd, peer_list,
                   nat_addr, nat_local, fn_in, fn_out, sending>>

NextNat == NatStep

SpecNat == InitNat /\ [][NextNat]_vars

(***************************************************************************)
(* The network: sessions joined by reliable in-order connections, each     *)
(* reading what its wire peer wrote, and one registry per node.  The       *)
(* registry (crate::server, not among the sources) is modelled from the    *)
(* specification's section 6: on Connected it records the peer's channel   *)
(* and accepts a connection that does not come accepted; in Spec2 it may   *)
(* send Accept to a connection that comes accepted as well.                *)
(***************************************************************************)

Running(i) == sess[i].pc \in {"handshake", "loop"}

\* Session i reads the next event of its connection.
NetRecv(i) ==
    /\ Running(i)
    /\ rd[i] < Len(ep_out[WirePeer[i]])
    /\ LET ev == ep_out[WirePeer[i]][rd[i] + 1]
           e == IF sess[i].pc = "handshake"
                THEN Handshake(sess[i], i, ObservedAddr, ev)
                ELSE OnEndpoint(sess[i], peer_list[SessNode[i]], ev)
       IN  Apply(i, e)
    /\ rd' = [rd EXCEPT ![i] = @ + 1]
    /\ UNCHANGED <<crd, srd, peer_list, natvars, last>>

\* Session i reads the next command of its channel.
NetCmd(i) ==
    /\ sess[i].pc = "loop"
    /\ crd[i] < Len(cmds[i])
    /\ LET e == OnCommand(sess[i], peer_list[SessNode[i]], cmds[i][crd[i] + 1])
       IN  Apply(i, e)
    /\ crd' = [crd EXCEPT ![i] = @ + 1]
    /\ UNCHANGED <<rd, srd, peer_list, natvars, last>>

\* The registry of session i's node reads the session's next message.
Registry(i) ==
    /\ srd[i] < Len(srv[i])
    /\ srd' = [srd EXCEPT ![i] = @ + 1]
    /\ LET m == srv[i][srd[i] + 1]
           n == SessNode[i]
       IN  CASE m.m = "Connected" ->
                  /\ peer_list' = [peer_list EXCEPT ![n] = @ \cup {m.id}]
                  /\ cmds' = IF m.is_ok THEN cmds
                              ELSE [cmds EXCEPT ![i] = Append(@, CmdOk("app", TRUE))]
             [] m.m = "Close" ->
                  /\ peer_list' = [peer_list EXCEPT ![n] = @ \ {m.id}]
                  /\ cmds' = cmds
             [] OTHER -> UNCHANGED <<peer_list, cmds>>
    /\ UNCHANGED <<sess, ep_out, srv, out, rd, crd, natvars, last>>

\* The registry may send Accept to a session that came accepted as well.
AcceptDialer(i) ==
    /\ srd[i] >= 1
    /\ srv[i][1].is_ok
    /\ \A k \in 1..Len(cmds[i]) : cmds[i][k].c # "Ok"
    /\ cmds' = [cmds EXCEPT ![i] = Append(@, CmdOk("app", TRUE))]
    /\ UNCHANGED <<sess, ep_out, srv, out, rd, crd, srd, peer_list, natvars, last>>

Submitted(i) == Cardinality({k \in 1..Len(cmds[i]) : cmds[i][k].c = "Bytes"})

\* Node A's registry, holding the channel of A's session with B, submits a
\* payload for peer `to` on it.
Submit(to, max) ==
    /\ "B" \in peer_list["A"]
    /\ to = "B" \/ to \in peer_list["B"]
    /\ Submitted(1) < max
    /\ \E p \in Payloads : cmds' = [cmds EXCEPT ![1] = Append(@, CmdBytes("A", to, p))]
    /\ UNCHANGED <<sess, ep_out, srv, out, rd, crd, srd, peer_list, natvars, last>>

InitNet(active, dialers) ==
    /\ sess = [i \in SessIds |-> IF i \in active
                                 THEN NewSession(SessNode[i], i \in dialers) ELSE Idle(i)]
    /\ ep_out = [i \in SessIds |-> IF i \in active
                                   THEN DialerPreamble(SessNode[i], i \in dialers) ELSE << >>]
    /\ srv = [i \in SessIds |-> << >>]
    /\ out = [i \in SessIds |-> << >>]
    /\ cmds = [i \in SessIds |-> << >>]
    /\ rd = [i \in SessIds |-> 0]
    /\ crd = [i \in SessIds |-> 0]
    /\ srd = [i \in SessIds |-> 0]
    /\ peer_list = [n \in PeerIds |-> {}]
    /\ nat_addr = ObservedAddr
    /\ nat_local = PeerOf("A")
    /\ nat_result = PeerOf("A")
    /\ fn_in = NoEvent
    /\ fn_out = NoEvent
    /\ sending = [i \in SessIds |-> NoEvent]
    /\ last = Last("init", NoEvent)

\* Every session is a task of its own and the registry is one; select! takes
\* whichever of its two sources is ready.
Fairness ==
    \A i \in SessIds : WF_vars(NetRecv(i)) /\ WF_vars(NetCmd(i)) /\ WF_vars(Registry(i))

(***************************************************************************)
(* Spec2: node A connects to node B.                                       *)
(***************************************************************************)
Init2 == InitNet({1, 2}, {1})

Next2 == \/ \E i \in SessIds : NetRecv(i) \/ NetCmd(i) \/ Registry(i) \/ AcceptDialer(i)
         \/ Submit("B", MaxSubmit)

Spec2 == Init2 /\ [][Next2]_vars /\ Fairness

(***************************************************************************)
(* Spec3: node A connects to node B, and B and C are connected, either of  *)
(* the two having dialled.  A's registry routes payloads for C through B.  *)
(***************************************************************************)
Init3 == \E d \in {3, 4} : InitNet(SessIds, {1, d})

Next3 == \/ \E i \in SessIds : NetRecv(i) \/ NetCmd(i) \/ Registry(i)
         \/ Submit("C", MaxRelay)

Spec3 == Init3 /\ [][Next3]_vars /\ Fairness

(***************************************************************************)
(* The claims.                                                             *)
(***************************************************************************)
CloseCount(i) == Cardinality({k \in 1..Len(srv[i]) : srv[i][k].m = "Close"})

IsTagged(m) == m.ev = "Bytes" /\ m.b.t \in SessionTypeTags

IsData(m) == m.ev = "Bytes" /\ m.b.t = "Data"

IsOwnRemotePublic(m, me) == m.ev = "Bytes" /\ m.b.t = "RemotePublic" /\ m.b.key = me

HandshakeFailed == sess[S].pc = "done" /\ sess[S].remote_peer_id = NoPeer

C2_CloseAtMostOnce ==
    /\ CloseCount(S) <= 1
    /\ \A k \in 1..Len(srv[S]) :
        srv[S][k].m = "Close" =>
            /\ srv[S][k].id = "A"
            /\ \E j \in 1..(k - 1) : srv[S][j].m = "Connected" /\ srv[S][j].id = "A"

C2_Witness ==
    /\ CloseCount(S) = 1
    /\ sess[S].pc = "done"
    /\ last.src = "ep" /\ last.ev = EpClose

\* C3 (as claimed): after Connected, every transport close or error (a Close
\* event, another event that is no byte blob, the channel ending) terminates
\* the session and gives the registry exactly one Close, accepted or not.
C3_TransportCloseNotifies ==
    (last.src = "ep" /\ last.ev.ev \in {"Close", "Other", "End"})
        => (sess[S].pc = "done" /\ CloseCount(S) = 1)

\* C4: handling Accept marks the session accepted and appends exactly three
\* messages to the transport: RemotePublic with the command's app_data, Key
\* with this node's key-material, DHT with the registry's candidates.
C4_AcceptWritesThree ==
    [][(last'.src = "cmd" /\ last'.ev.c = "Ok") =>
        /\ sess'[S].is_ok
        /\ ep_out'[S] = ep_out[S] \o
             << Bytes(RemotePublic("B", PeerOf("B"), last'.ev.data)),
                Bytes(STKey(KeyMaterial("B"))),
                Bytes(STDHT([i \in 1..Cardinality(peer_list["B"] \ {"A"}) |-> PeerOf("C")],
                            << >>)) >>]_vars

C4_Witness ==
    /\ last.src = "cmd" /\ last.ev.c = "Ok"
    /\ sess[S].is_ok
    /\ peer_list["B"] = {"A", "C"}
    /\ Len(ep_out[S]) = 3

\* C5: while the key exchange is not ready the session has written no Data
\* frame and delivered nothing upward.
C5_NothingBeforeReady ==
    ~is_ok(sess[S].session_key) =>
        /\ \A k \in 1..Len(ep_out[S]) : ~IsData(ep_out[S][k])
        /\ out[S] = << >>

C5_Witness ==
    /\ ~is_ok(sess[S].session_key)
    /\ sess[S].is_ok
    /\ Len(sess[S].buffers) = 2
    /\ last.src = "ep" /\ last.ev = Bytes(STData("A", "B", GoodCipher("p1")))

\* C6: every tagged frame on the connection comes after this node's
\* RemotePublic.
C6_RemotePublicFirst ==
    \A k \in 1..Len(ep_out[S]) :
        IsTagged(ep_out[S][k]) =>
            \E j \in 1..(k - 1) : IsOwnRemotePublic(ep_out[S][j], "B")

C6_Witness ==
    /\ Len(ep_out[S]) >= 4
    /\ IsOwnRemotePublic(ep_out[S][1], "B") /\ ep_out[S][1].b.data = "app"
    /\ ep_out[S][4] = Bytes(STPong)
    /\ Len(srv[S]) >= 1 /\ ~srv[S][1].is_ok

\* C9 (as claimed): the resolved descriptor is publicly reachable exactly when
\* the observed port equals the claimed local port.
C9_IsPubIffPortsEqual ==
    last.src = "nat" =>
        (nat_result.is_pub <=> (nat_addr.port = nat_local.addr.port))

\* C10: the resolved descriptor has the observed host, the claimed port for
\* TCP and the observed port otherwise, and the claimed id and transport.
C10_ResolvedAddress ==
    last.src = "nat" =>
        /\ nat_result.addr.host = nat_addr.host
        /\ nat_result.addr.port = IF nat_local.transport = "TCP"
                                  THEN nat_local.addr.port ELSE nat_addr.port
        /\ nat_result.id = nat_local.id
        /\ nat_result.transport = nat_local.transport

C10_Witness ==
    /\ last.src = "nat"
    /\ nat_local.transport = "TCP"
    /\ nat_addr.port # nat_local.addr.port
    /\ nat_addr.host # nat_local.addr.host
    /\ nat_result.addr = SocketAddr(nat_addr.host, nat_local.addr.port)

SubmittedFor(i, to, p) ==
    Cardinality({k \in 1..Len(cmds[i]) : cmds[i][k] = CmdBytes("A", to, p)})

DeliveredAt(i, p) ==
    Cardinality({k \in 1..Len(out[i]) : out[i][k].bytes = p})

DeliveredFrom(i, from, p) ==
    Cardinality({k \in 1..Len(out[i]) : out[i][k] = RecvData(from, p)})

BothKeyed(i, j) == is_ok(sess[i].session_key) /\ is_ok(sess[j].session_key)

\* C7: A connects to B and B's registry accepts: both sessions eventually
\* become keyed, and every payload A's registry submits for B is eventually
\* delivered upward at B, tagged A, with the same bytes, whether A's session
\* was keyed or not when it was submitted.  (The submissions being finitely
\* many: from some point on the deliveries at B are the submissions at A.)
C7_TwoNodeDelivery ==
    <>[](/\ BothKeyed(1, 2)
         /\ \A p \in Payloads : DeliveredFrom(2, "A", p) = SubmittedFor(1, "B", p))

\* Two payloads submitted while A's session was unkeyed (they come out of the
\* buffer in reverse) and both delivered at B.
C7_Witness ==
    /\ BothKeyed(1, 2)
    /\ \E k \in 1..Len(cmds[1]) :
        /\ k < Len(cmds[1])
        /\ cmds[1][k] = CmdBytes("A", "B", "p1")
        /\ cmds[1][k + 1] = CmdBytes("A", "B", "p2")
    /\ out[2] = <<RecvData("A", "p2"), RecvData("A", "p1")>>

DataKeys(i) == {ep_out[i][k].b.e_data.k : k \in {j \in 1..Len(ep_out[i]) : IsData(ep_out[i][j])}}

\* C8: A submits a payload for C on its session with B while B's registry
\* holds C's channel: the payload is eventually delivered upward at C with
\* the same bytes; on the way it is encrypted with the A-B key between A and
\* B, relayed in plaintext into B's session with C, and encrypted with the
\* B-C key between B and C.  (The submissions being finitely many: from some
\* point on the deliveries at C are the submissions at A.)
C8_ThreeNodeRelay ==
    /\ <>[](\A p \in Payloads : DeliveredAt(4, p) = SubmittedFor(1, "C", p))
    /\ [](/\ DataKeys(1) \subseteq {{"A", "B"}}
          /\ DataKeys(3) \subseteq {{"B", "C"}}
          /\ \A k \in 1..Len(cmds[3]) :
                cmds[3][k].c = "Bytes" => cmds[3][k].bytes \in Payloads)

C8_Witness ==
    /\ SubmittedFor(1, "C", "p1") = 1
    /\ DeliveredAt(4, "p1") = 1
    /\ DataKeys(1) = {{"A", "B"}}
    /\ DataKeys(3) = {{"B", "C"}}
    /\ CmdBytes("A", "C", "p1") \in {cmds[3][k] : k \in 1..Len(cmds[3])}

(***************************************************************************)
(* The DHT codec of hole_punching.rs: a 4-byte little-endian record count  *)
(* and then the records, each PEER_LENGTH bytes wide.  A slice of a buffer *)
(* past its end panics in Rust; the model keeps that outcome apart from an *)
(* error return.                                                           *)
(***************************************************************************)
MaxPeers == 2
MaxBytes == 7

Err == [r |-> "Err"]
Ok(v) == [r |-> "Ok", v |-> v]
Panic == [r |-> "Panic"]

\* The record codec: one byte for the id, one for the address, one for the
\* transport and the public flag.  PEER_LENGTH is the width of a record.
PEER_LENGTH == 3

IndexOf(seq, x) == CHOOSE k \in 1..Len(seq) : seq[k] = x

HostOrder == <<"h1", "h2">>
TransportOrder == <<"TCP", "UDP", "RTP">>

Peer_to_bytes(p) ==
    << IndexOf(PeerOrder, p.id) - 1,
       (IndexOf(HostOrder, p.addr.host) - 1) * MaxPort + (p.addr.port - 1),
       (IndexOf(TransportOrder, p.transport) - 1) + (IF p.is_pub THEN 3 ELSE 0) >>

Peer_from_bytes(bytes) ==
    IF Len(bytes) # PEER_LENGTH THEN Err
    ELSE IF \/ bytes[1] >= Len(PeerOrder)
            \/ bytes[2] >= Len(HostOrder) * MaxPort
            \/ bytes[3] >= 2 * Len(TransportOrder)
         THEN Err
         ELSE Ok(Peer(PeerOrder[bytes[1] + 1],
                      SocketAddr(HostOrder[(bytes[2] \div MaxPort) + 1],
                                 (bytes[2] % MaxPort) + 1),
                      TransportOrder[(bytes[3] % 3) + 1],
                      bytes[3] >= 3))

\* The cast to u32 keeps the low 32 bits, which the last byte's % 256 does.
u32_to_le_bytes(n) ==
    << n % 256, (n \div 256) % 256, (n \div 65536) % 256, (n \div 16777216) % 256 >>

u32_from_le_bytes(b) == b[1] + 256 * b[2] + 65536 * b[3] + 16777216 * b[4]

RECURSIVE Concat(_)
Concat(seqs) == IF seqs = << >> THEN << >> ELSE Head(seqs) \o Concat(Tail(seqs))

DHT_to_bytes(peers) ==
    u32_to_le_bytes(Len(peers)) \o Concat([k \in 1..Len(peers) |-> Peer_to_bytes(peers[k])])

\* The loop of from_bytes from record i on, peers being what it has decoded
\* so far.
RECURSIVE DHT_decode_from(_, _, _, _)
DHT_decode_from(raw_bytes, len, i, peers) ==
    IF i >= len THEN Ok(peers)
    ELSE IF (i + 1) * PEER_LENGTH > Len(raw_bytes) THEN Panic
    ELSE LET p == Peer_from_bytes(SubSeq(raw_bytes, i * PEER_LENGTH + 1,
                                         (i + 1) * PEER_LENGTH))
         IN IF p = Err THEN Err
            ELSE DHT_decode_from(raw_bytes, len, i + 1, Append(peers, p.v))

DHT_from_bytes_NoLengthCheck(bytes) ==
    IF Len(bytes) < 4 THEN Err
    ELSE DHT_decode_from(SubSeq(bytes, 5, Len(bytes)),
                         u32_from_le_bytes(SubSeq(bytes, 1, 4)), 0, << >>)

DHT_from_bytes(bytes) ==
    IF Len(bytes) < 4 THEN Err
    ELSE LET len == u32_from_le_bytes(SubSeq(bytes, 1, 4))
             raw_bytes == SubSeq(bytes, 5, Len(bytes))
         IN IF Len(raw_bytes) < len * PEER_LENGTH THEN Err
            ELSE DHT_decode_from(raw_bytes, len, 0, << >>)

(***************************************************************************)
(* SpecDht: the codec applied once to every peer list and every buffer of  *)
(* the bounds.  The buffers hold a valid byte, a second valid byte and one *)
(* no record field accepts.                                                *)
(***************************************************************************)
SeqsUpTo(set, n) == UNION {[1..k -> set] : k \in 0..n}

DhtPeers ==
    {PeerOf("A"), Peer("B", SocketAddr("h2", 2), "UDP", TRUE),
     Peer("C", SocketAddr("h1", MaxPort), "RTP", FALSE)}

BufferBytes == {0, 1, 7}

InitDht ==
    /\ sess = [i \in SessIds |-> Idle(i)]
    /\ ep_out = [i \in SessIds |-> << >>]
    /\ srv = [i \in SessIds |-> << >>]
    /\ out = [i \in SessIds |-> << >>]
    /\ cmds = [i \in SessIds |-> << >>]
    /\ rd = [i \in SessIds |-> 0]
    /\ crd = [i \in SessIds |-> 0]
    /\ srd = [i \in SessIds |-> 0]
    /\ peer_list = [n \in PeerIds |-> {}]
    /\ nat_addr = ObservedAddr
    /\ nat_local = PeerOf("A")
    /\ nat_result = PeerOf("A")
    /\ \E peers \in SeqsUpTo(DhtPeers, MaxPeers), bytes \in SeqsUpTo(BufferBytes, MaxBytes) :
        fn_in = [peers |-> peers, bytes |-> bytes]
    /\ fn_out = NoEvent
    /\ sending = [i \in SessIds |-> NoEvent]
    /\ last = Last("init", NoEvent)

\* The list is encoded and the encoding decoded; the buffer is decoded.
DhtStep ==
    /\ last.src = "init"
    /\ fn_out' = [encoded |-> DHT_to_bytes(fn_in.peers),
                  back |-> DHT_from_bytes(DHT_to_bytes(fn_in.peers)),
                  decoded |-> DHT_from_bytes(fn_in.bytes)]
    /\ last' = Last("dht", NoEvent)
    /\ UNCHANGED <<sess, ep_out, srv, out, cmds, rd, crd, srd, peer_list,
                   nat_addr, nat_local, nat_result, fn_in, sending>>

NextDht == DhtStep

SpecDht == InitDht /\ [][NextDht]_vars

\* The bytes a buffer needs for the count its first four bytes announce.
DhtNeeded(bytes) == 4 + u32_from_le_bytes(bytes) * PEER_LENGTH

\* C11: a list of N records encodes as the 4-byte little-endian N and then
\* its N records of PEER_LENGTH bytes in order, and decodes back to itself;
\* decoding a buffer shorter than 4 bytes, or shorter than 4 bytes plus the
\* announced count times PEER_LENGTH, is an error and never a read past the
\* end of the buffer.
C11_DhtRoundTrip ==
    last.src = "dht" =>
        LET peers == fn_in.peers
            bytes == fn_in.bytes
            n == Len(peers)
        IN /\ fn_out.back = Ok(peers)
           /\ Len(fn_out.encoded) = 4 + n * PEER_LENGTH
           /\ SubSeq(fn_out.encoded, 1, 4) = <<n, 0, 0, 0>>
           /\ \A k \in 1..n :
                SubSeq(fn_out.encoded, 4 + (k - 1) * PEER_LENGTH + 1, 4 + k * PEER_LENGTH)
                    = Peer_to_bytes(peers[k])
           /\ fn_out.decoded # Panic
           /\ (Len(bytes) < 4 => fn_out.decoded = Err)
           /\ (Len(bytes) >= 4 /\ Len(bytes) < DhtNeeded(bytes) => fn_out.decoded = Err)

C11_Witness ==
    /\ last.src = "dht"
    /\ Len(fn_in.peers) = 2
    /\ fn_in.peers[1] # fn_in.peers[2]
    /\ fn_out.back = Ok(fn_in.peers)
    /\ Len(fn_in.bytes) >= 4
    /\ Len(fn_in.bytes) < DhtNeeded(fn_in.bytes)
    /\ u32_from_le_bytes(fn_in.bytes) = 1
    /\ fn_out.decoded = Err

(***************************************************************************)
(* The signatures of key.rs.  A signature is the 64 bytes of its compact   *)
(* form and a recovery id; on the wire it is those 64 bytes and one byte   *)
(* for the id.  The curve and the hash are the libraries': a compact form  *)
(* is the term <<signer, digest, id>>, recovery returns the signer's key   *)
(* for that digest and that id and an unrelated key otherwise, and the     *)
(* hash of a message is 32 bytes no other message has.                     *)
(***************************************************************************)
SIGNATURE_LENGTH == 65

U8 == 0..255

\* A byte string of len bytes whose first 64 are compact and whose byte 64,
\* if it has one, is v.
SigBytes(len, compact, v) == [len |-> len, compact |-> compact, v |-> v]

Compact(sk, digest, id) == [signer |-> sk, digest |-> digest, id |-> id]

Overflowed == [signer |-> 0, digest |-> << >>, id |-> 0]

from_compact_ok(compact) == compact # Overflowed

Signature_to_bytes(sig) == SigBytes(64 + 1, sig.compact, sig.recid + 27)

Signature_from_bytes_NoOffset(bytes) ==
    IF bytes.len # SIGNATURE_LENGTH THEN Err
    ELSE LET v == bytes.v
             id == IF v <= 26 THEN v % 4 ELSE IF v <= 34 THEN v % 4 ELSE (v - 1) % 2
         IN IF id \notin 0..3 \/ ~from_compact_ok(bytes.compact) THEN Err
            ELSE Ok([compact |-> bytes.compact, recid |-> id])

Signature_from_bytes(bytes) ==
    IF bytes.len # SIGNATURE_LENGTH THEN Err
    ELSE LET v == bytes.v
             id == IF v <= 26 THEN v % 4
                   ELSE IF v <= 34 THEN (v - 27) % 4
                   ELSE (v - 1) % 2
         IN IF id \notin 0..3 \/ ~from_compact_ok(bytes.compact) THEN Err
            ELSE Ok([compact |-> bytes.compact, recid |-> id])

Keccak256(bytes) == [i \in 1..32 |-> [h |-> bytes, i |-> i]]

public_key(sk) == [x |-> sk, y |-> sk]

\* The prefix byte and the two coordinates.
serialize_uncompressed(pk) == <<4, [x |-> pk.x], [y |-> pk.y]>>

PublicKey_peer_id(pk) == SubSeq(Keccak256(Tail(serialize_uncompressed(pk))), 12 + 1, 32)

Key_peer_id(sk) == PublicKey_peer_id(public_key(sk))

\* id is the recovery id the library's signing arrives at.
sign(sk, msg, id) ==
    [compact |-> Compact(sk, Keccak256(msg), id), recid |-> id]

RECURSIVE to_string(_)
to_string(n) == IF n < 10 THEN <<48 + n>> ELSE to_string(n \div 10) \o <<48 + (n % 10)>>

PREFIX == <<25, "Ethereum Signed Message:", 10>>

sign_eth_NoLength(sk, message, id) == sign(sk, PREFIX \o message, id)

sign_eth(sk, message, id) == sign(sk, PREFIX \o to_string(Len(message)) \o message, id)

recover_ecdsa(digest, sig) ==
    IF sig.compact.digest = digest /\ sig.compact.id = sig.recid
    THEN public_key(sig.compact.signer)
    ELSE public_key(0)

Signature_peer_id(sig, msg) == Ok(PublicKey_peer_id(recover_ecdsa(Keccak256(msg), sig)))

Signature_peer_id_eth(sig, message) ==
    Signature_peer_id(sig, PREFIX \o to_string(Len(message)) \o message)

(***************************************************************************)
(* SpecKey: a byte string is decoded, or a message is signed, the          *)
(* signature encoded, decoded and the signer recovered from it.            *)
(***************************************************************************)
MaxMsgLen == 11

SigLens == {0, SIGNATURE_LENGTH - 1, SIGNATURE_LENGTH, SIGNATURE_LENGTH + 1}

SecretKeys == {1, 2}

Messages == {[k \in 1..n |-> 100 + k] : n \in {0, 1, MaxMsgLen}}

DecodeInputs ==
    [f : {"decode"}, bytes : {SigBytes(len, c, v) : len \in SigLens,
                                   c \in {Compact(1, Keccak256(<<1>>), 0), Overflowed},
                                   v \in U8},
     id : 0..3]

SignInputs ==
    [f : {"sign"}, sk : SecretKeys, msg : Messages, id : 0..3, eth : BOOLEAN]

InitKey ==
    /\ sess = [i \in SessIds |-> Idle(i)]
    /\ ep_out = [i \in SessIds |-> << >>]
    /\ srv = [i \in SessIds |-> << >>]
    /\ out = [i \in SessIds |-> << >>]
    /\ cmds = [i \in SessIds |-> << >>]
    /\ rd = [i \in SessIds |-> 0]
    /\ crd = [i \in SessIds |-> 0]
    /\ srd = [i \in SessIds |-> 0]
    /\ peer_list = [n \in PeerIds |-> {}]
    /\ nat_addr = ObservedAddr
    /\ nat_local = PeerOf("A")
    /\ nat_result = PeerOf("A")
    /\ fn_in \in DecodeInputs \cup SignInputs
    /\ fn_out = NoEvent
    /\ sending = [i \in SessIds |-> NoEvent]
    /\ last = Last("init", NoEvent)

\* The byte string is decoded; a signature with the recovery id is encoded
\* and decoded.
DecodeStep ==
    /\ last.src = "init"
    /\ fn_in.f = "decode"
    /\ fn_out' = [decoded |-> Signature_from_bytes(fn_in.bytes),
                  back |-> Signature_from_bytes(Signature_to_bytes(
                               [compact |-> fn_in.bytes.compact, recid |-> fn_in.id]))]
    /\ last' = Last("decode", NoEvent)
    /\ UNCHANGED <<sess, ep_out, srv, out, cmds, rd, crd, srd, peer_list,
                   nat_addr, nat_local, nat_result, fn_in, sending>>

SignStep ==
    /\ last.src = "init"
    /\ fn_in.f = "sign"
    /\ LET sig == IF fn_in.eth THEN sign_eth(fn_in.sk, fn_in.msg, fn_in.id)
                  ELSE sign(fn_in.sk, fn_in.msg, fn_in.id)
           back == Signature_from_bytes(Signature_to_bytes(sig))
       IN fn_out' = [signer |-> Key_peer_id(fn_in.sk),
                     recovered |-> IF back = Err THEN Err
                                   ELSE IF fn_in.eth
                                        THEN Signature_peer_id_eth(back.v, fn_in.msg)
                                        ELSE Signature_peer_id(back.v, fn_in.msg)]
    /\ last' = Last("sign", NoEvent)
    /\ UNCHANGED <<sess, ep_out, srv, out, cmds, rd, crd, srd, peer_list,
                   nat_addr, nat_local, nat_result, fn_in, sending>>

NextKey == DecodeStep \/ SignStep

SpecKey == InitKey /\ [][NextKey]_vars

\* The recovery id a 65-byte string with a well-formed compact part decodes to.
DecodedId == fn_out.decoded.v.recid

Decodable == fn_in.bytes.len = SIGNATURE_LENGTH /\ from_compact_ok(fn_in.bytes.compact)

\* The trailing byte maps to v mod 4, (v - 27) mod 4 and (v - 1) mod 2 in its
\* three ranges, 27 + id decodes back to id, and a length other than 65 is
\* rejected.
SigArithmetic ==
    LET v == fn_in.bytes.v
    IN /\ fn_in.bytes.len # SIGNATURE_LENGTH => fn_out.decoded = Err
       /\ Decodable =>
            /\ fn_out.decoded # Err
            /\ v \in 0..26 => DecodedId = v % 4
            /\ v \in 27..34 => DecodedId = (v - 27) % 4
            /\ v >= 35 => DecodedId = (v - 1) % 2
       /\ from_compact_ok(fn_in.bytes.compact) =>
            fn_out.back = Ok([compact |-> fn_in.bytes.compact, recid |-> fn_in.id])

\* C12 as stated: the arithmetic, and every recovery id 0..3 decodes to
\* itself from its encoding in each of the three ranges: id, 27 + id and
\* 35 + id.
C12_EveryIdInEveryRange ==
    last.src = "decode" =>
        /\ SigArithmetic
        /\ Decodable =>
            \A id \in 0..3 : fn_in.bytes.v \in {id, 27 + id, 35 + id} => DecodedId = id

\* C12: the arithmetic, and a recovery id decodes to itself from its bare
\* encoding id and from 27 + id for every id 0..3, and from 35 + id, with any
\* even number added, for the ids 0 and 1 only: a byte of 35 or more never
\* decodes to 2 or 3.
C12_RecoveryIdDecoding ==
    last.src = "decode" =>
        /\ SigArithmetic
        /\ Decodable =>
            /\ \A id \in 0..3 : fn_in.bytes.v \in {id, 27 + id} => DecodedId = id
            /\ \A id \in 0..1 :
                 fn_in.bytes.v >= 35 /\ (fn_in.bytes.v - 35) % 2 = id => DecodedId = id
            /\ fn_in.bytes.v >= 35 => DecodedId \in 0..1

C12_Witness ==
    /\ last.src = "decode"
    /\ Decodable
    /\ fn_in.bytes.v = 35 + 2
    /\ fn_in.id = 3
    /\ DecodedId = 0
    /\ fn_out.back.v.recid = 3

\* C13: the peer id recovered from the decoded encoding of a signature, over
\* the message that was signed, is the signing key's peer id, with the plain
\* and with the Ethereum-prefixed hashing alike; a peer id is the last 20 of
\* the 32 bytes of the Keccak-256 hash of the uncompressed public key without
\* its prefix byte.
C13_SignRecoverRoundTrip ==
    last.src = "sign" =>
        /\ fn_out.recovered = Ok(fn_out.signer)
        /\ fn_out.signer = Key_peer_id(fn_in.sk)
        /\ Len(fn_out.signer) = 20
        /\ \A i \in 1..20 :
             fn_out.signer[i] =
                 Keccak256(<<[x |-> fn_in.sk], [y |-> fn_in.sk]>>)[32 - 20 + i]
        /\ \A sk \in SecretKeys : sk # fn_in.sk => Key_peer_id(sk) # fn_out.signer

C13_Witness ==
    /\ last.src = "sign"
    /\ fn_in.eth
    /\ Len(fn_in.msg) >= 10
    /\ fn_in.id = 3
    /\ fn_out.recovered = Ok(Key_peer_id(fn_in.sk))

(***************************************************************************)
(* The frames of an established session (Spec).  A step's event is in      *)
(* last' and the session that handles it in the unprimed state.            *)
(***************************************************************************)
InLoop == sess[S].pc = "loop"

Accepted == InLoop /\ sess[S].is_ok

Keyed == is_ok(sess[S].session_key)

\* The step handles an inbound frame of tag t.
Inbound(t) == last'.src = "ep" /\ last'.ev.ev = "Bytes" /\ last'.ev.b.t = t

\* The places of this node's own key-material on the connection.
OwnKeyFrames == {k \in 1..Len(ep_out[S]) : ep_out[S][k] = Bytes(STKey(KeyMaterial("B")))}

\* Nothing is written anywhere and the session stays as it is.
Ignored ==
    /\ sess' = sess /\ ep_out' = ep_out /\ srv' = srv /\ out' = out /\ cmds' = cmds

\* C14 (as claimed): a connected session that is not accepted ignores inbound
\* Data and DHT frames, but an inbound Key frame with the peer's key-material
\* is consumed by the key exchange, which is ready after it.
C14_KeyFedBeforeAccept ==
    [][(InLoop /\ ~sess[S].is_ok) =>
          /\ (Inbound("Data") \/ Inbound("DHT")) => Ignored
          /\ (Inbound("Key") /\ last'.ev.b.bytes = KeyMaterial("A")) =>
                is_ok(sess'[S].session_key)]_vars

\* C15 (as claimed): this node's key-material is on the connection at most
\* once.
C15_OwnKeyAtMostOnce == Cardinality(OwnKeyFrames) <= 1

\* C16: an accepted session whose key exchange is not ready and rejects the
\* bytes of an inbound Key frame sends Close(remote peer) to the registry,
\* then closes the transport, and ends; it writes no key-material and no Data
\* frame, keeps what it had buffered, and delivers nothing upward.
C16_RejectedKeyCloses ==
    [][(Accepted /\ ~Keyed /\ Inbound("Key")
            /\ ~in_bytes_ok(sess[S].session_key, last'.ev.b.bytes)) =>
          /\ srv'[S] = Append(srv[S], SrvClose("A"))
          /\ ep_out'[S] = Append(ep_out[S], EpClose)
          /\ last'.order = <<"srv", "ep">>
          /\ sess'[S].pc = "done"
          /\ sess'[S].buffers = sess[S].buffers
          /\ ~is_ok(sess'[S].session_key)
          /\ out' = out
          /\ cmds' = cmds]_vars

C16_Witness ==
    /\ last.src = "ep" /\ last.ev = Bytes(STKey(BadKeyMaterial))
    /\ last.order = <<"srv", "ep">>
    /\ sess[S].pc = "done"
    /\ Len(sess[S].buffers) = 2
    /\ srv[S][Len(srv[S])] = SrvClose("A")
    /\ OwnKeyFrames = {}

\* The step is the Key frame that makes the key exchange ready.
KeyMakesReady == Accepted /\ ~Keyed /\ Inbound("Key") /\ is_ok(sess'[S].session_key)

\* What the step appended to the connection.
Written == SubSeq(ep_out'[S], Len(ep_out[S]) + 1, Len(ep_out'[S]))

\* How often the payload p for the peer to is in the buffer, and how often the
\* step wrote it as a Data frame.
TimesBuffered(to, p) ==
    Cardinality({k \in 1..Len(sess[S].buffers) : sess[S].buffers[k] = <<to, p>>})

TimesWritten(to, p) ==
    Cardinality({k \in 1..Len(Written) :
                    /\ IsData(Written[k])
                    /\ Written[k].b.to = to
                    /\ Written[k].b.e_data = encrypt(sess'[S].session_key, p)})

\* C17: a session whose key exchange is ready has an empty outbound buffer;
\* the Key frame that makes the exchange ready is answered with the buffered
\* payloads, each as one Data frame and nothing else but this node's
\* key-material; a payload submitted to a keyed session is written at once
\* and not buffered.
C17_BufferEmptyOnceKeyed ==
    /\ [](Keyed => sess[S].buffers = << >>)
    /\ [][KeyMakesReady =>
            /\ Len(Written) = 1 + Len(sess[S].buffers)
            /\ Written[1] = Bytes(STKey(KeyMaterial("B")))
            /\ \A to \in PeerIds, p \in Payloads : TimesWritten(to, p) = TimesBuffered(to, p)
            /\ sess'[S].buffers = << >>]_vars
    /\ [][(InLoop /\ Keyed /\ last'.src = "cmd" /\ last'.ev.c = "Bytes") =>
            /\ sess'[S].buffers = << >>
            /\ Len(Written) = 1
            /\ IsData(Written[1])
            /\ Written[1].b.e_data = encrypt(sess[S].session_key, last'.ev.bytes)]_vars

C17_Witness ==
    /\ last.src = "cmd" /\ last.ev = CmdBytes("C", "A", "p2")
    /\ Keyed
    /\ sess[S].buffers = << >>
    /\ Len(ep_out[S]) = 5
    /\ ep_out[S][2] = Bytes(STKey(KeyMaterial("B")))
    /\ IsData(ep_out[S][3]) /\ ep_out[S][3].b.e_data.p = "p1"
    /\ IsData(ep_out[S][4]) /\ ep_out[S][4].b.e_data.p = "p1"
    /\ IsData(ep_out[S][5]) /\ ep_out[S][5].b.e_data.p = "p2"

\* The payloads of a sequence of Data frames, in order.
PayloadsOf(frames) == [k \in 1..Len(frames) |-> frames[k].b.e_data.p]

Reverse(seq) == [k \in 1..Len(seq) |-> seq[Len(seq) + 1 - k]]

\* C18: the Key frame that makes the key exchange ready is answered with the
\* buffered payloads last in, first out: buffered as p1, ..., pn they are
\* written as pn, ..., p1.
C18_FlushIsLifo ==
    [][KeyMakesReady =>
          PayloadsOf(Tail(Written)) =
              Reverse([k \in 1..Len(sess[S].buffers) |-> sess[S].buffers[k][2]])]_vars

C18_Witness ==
    /\ last.src = "ep" /\ last.ev = Bytes(STKey(KeyMaterial("A")))
    /\ Keyed
    /\ Len(ep_out[S]) = 4
    /\ IsOwnRemotePublic(ep_out[S][1], "B")
    /\ ep_out[S][2] = Bytes(STKey(KeyMaterial("B")))
    /\ IsData(ep_out[S][3]) /\ ep_out[S][3].b.e_data.p = "p2"
    /\ IsData(ep_out[S][4]) /\ ep_out[S][4].b.e_data.p = "p1"

\* The step handles a Data frame an accepted, keyed session can decrypt.
DataDecrypts ==
    Accepted /\ Keyed /\ Inbound("Data") /\ decrypt_ok(sess[S].session_key, last'.ev.b.e_data)

\* C19: a Data frame (from, to, ciphertext) that an accepted, keyed session
\* decrypts causes exactly one of: the delivery of (from, plaintext) upward
\* when to is this node; one RelayOrSend(from, to, plaintext) into the command
\* channel the registry holds for to, when to is another peer it holds one
\* for; nothing, when it holds none.  It never causes two of them and writes
\* nothing to the session's own connection.
C19_DataDeliversOrRelays ==
    [][DataDecrypts =>
          LET from == last'.ev.b.from
              to == last'.ev.b.to
              plain == last'.ev.b.e_data.p
          IN /\ ep_out' = ep_out /\ srv' = srv /\ sess' = sess
             /\ to = "B" =>
                  /\ out'[S] = Append(out[S], RecvData(from, plain))
                  /\ cmds' = cmds
             /\ (to # "B" /\ to \in peer_list["B"]) =>
                  /\ out' = out
                  /\ cmds' = [cmds EXCEPT ![SessAt("B", to)] =
                                              Append(@, CmdBytes(from, to, plain))]
             /\ (to # "B" /\ to \notin peer_list["B"]) =>
                  /\ out' = out
                  /\ cmds' = cmds]_vars

C19_Witness ==
    /\ last.src = "ep" /\ last.ev = Bytes(STData("A", "C", GoodCipher("p1")))
    /\ Keyed
    /\ cmds[SessAt("B", "C")] = <<CmdBytes("A", "C", "p1")>>
    /\ out[S] = <<RecvData("A", "p1")>>
    /\ \A k \in 1..Len(ep_out[S]) : ~IsData(ep_out[S][k])

\* The Connect messages the registry is owed for the records of DhtRecords:
\* none for this node's record and the remote peer's, one for the unknown
\* peer, and one for the third peer unless the registry has an entry for it.
ConnectsOwed ==
    <<SrvConnect(SocketAddr("h2", 2))>>
        \o (IF "C" \in peer_list["B"] THEN << >> ELSE <<SrvConnect(SocketAddr("h2", 1))>>)

\* C20: an accepted session that receives a DHT frame sends the registry one
\* Connect(address) for each record, in the order of the list, whose id is
\* not this node's and has no entry in the registry, and none for the other
\* records, whatever the frame's signature is; it writes nothing else, and the
\* key exchange and the buffers stay as they are.
C20_DhtRequestsConnects ==
    [][(Accepted /\ Inbound("DHT")) =>
          /\ last'.ev.b.peers = DhtRecords
          /\ srv'[S] = srv[S] \o ConnectsOwed
          /\ sess' = sess
          /\ ep_out' = ep_out /\ out' = out /\ cmds' = cmds]_vars

C20_Witness ==
    /\ last.src = "ep" /\ last.ev = Bytes(STDHT(DhtRecords, BadSign))
    /\ Len(srv[S]) = 3
    /\ srv[S][2] = SrvConnect(SocketAddr("h2", 2))
    /\ srv[S][3] = SrvConnect(SocketAddr("h2", 1))
    /\ Len(sess[S].buffers) = 1
    /\ ~Keyed

\* The step handles a blob that is no SessionType frame, or a Data frame whose
\* ciphertext a keyed session cannot decrypt.
BadMessage ==
    /\ InLoop
    /\ last'.src = "ep" /\ last'.ev.ev = "Bytes"
    /\ \/ ~SessionType_from_bytes_ok(last'.ev.b)
       \/ /\ last'.ev.b.t = "Data"
          /\ Keyed
          /\ ~decrypt_ok(sess[S].session_key, last'.ev.b.e_data)

\* C21: a blob that does not decode as a frame, and a Data frame whose
\* ciphertext does not decrypt, leave the session as it was (acceptance, key
\* exchange, buffer, still in its loop) and cause no message to the
\* connection, the registry, the application or another session.
C21_BadMessageIsDropped == [][BadMessage => (Ignored /\ sess'[S].pc = "loop")]_vars

C21_Witness ==
    /\ last.src = "ep" /\ last.ev = Bytes(STData("A", "B", BadCipher("p1")))
    /\ InLoop /\ sess[S].is_ok /\ Keyed
    /\ out[S] = << >>
    /\ Len(ep_out[S]) = 2

\* The step handles a RelayOrSend command.
RelayOrSend == InLoop /\ last'.src = "cmd" /\ last'.ev.c = "Bytes"

\* C22: a RelayOrSend(from, to, payload) command to a keyed session writes
\* exactly one frame, Data(from, to, encrypt(payload)), and leaves the buffer
\* as it is; to a session that is not keyed it writes nothing and appends the
\* payload, with its target, to the buffer; accepted or not, and with no
\* message to the registry, the application or another session.
C22_RelayOrSendWritesOrBuffers ==
    [][RelayOrSend =>
          LET cmd == last'.ev
          IN /\ srv' = srv /\ out' = out /\ cmds' = cmds
             /\ Keyed =>
                  /\ ep_out'[S] = Append(ep_out[S],
                        Bytes(STData(cmd.from, cmd.to, encrypt(sess[S].session_key, cmd.bytes))))
                  /\ sess' = sess
             /\ ~Keyed =>
                  /\ ep_out' = ep_out
                  /\ sess'[S] = [sess[S] EXCEPT !.buffers = Append(@, <<cmd.to, cmd.bytes>>)]]_vars

C22_Witness ==
    /\ last.src = "cmd" /\ last.ev = CmdBytes("C", "A", "p2")
    /\ InLoop /\ ~sess[S].is_ok /\ ~Keyed
    /\ sess[S].buffers = << <<"A", "p1">>, <<"A", "p2">> >>
    /\ ep_out[S] = << >>

\* C23 (as claimed): every Data frame on the connection carries the sender,
\* the target and the payload of a RelayOrSend command, whether it was
\* written at once or out of the buffer.
C23_DataKeepsSender ==
    \A k \in 1..Len(ep_out[S]) :
        IsData(ep_out[S][k]) =>
            \E cmd \in {c \in Commands : c.c = "Bytes"} :
                ep_out[S][k] = Bytes(STData(cmd.from, cmd.to, GoodCipher(cmd.bytes)))

(***************************************************************************)
(* SpecRelay: node B's two sessions, with A and with C, established and    *)
(* keyed, each reading Data frames its remote peer addresses to a peer     *)
(* other than B, and each other's command channel holding ChanCap          *)
(* commands at most.  The Data handler's sender.send(..).await is a step   *)
(* of its own: the handler, holding the read lock of the peer list, waits  *)
(* in it until the target's channel has room, and a session that waits     *)
(* reads neither its connection nor its command channel.  rd[i] counts the *)
(* Data frames session i has read.                                         *)
(***************************************************************************)
Relays == {2, 3}

\* The session i of node B after its handshake and the key exchange with its
\* remote peer: what the handlers leave of a dialling session.
EstablishedEffects(i) ==
    LET r == SessRemote[i]
        e1 == Handshake(NewSession("B", TRUE), i, ObservedAddr,
                        Bytes(RemotePublic(r, PeerOf(r), "join")))
        e2 == OnEndpoint(e1.s, {"A", "C"}, Bytes(STKey(KeyMaterial(r))))
    IN  [s |-> e2.s, ep |-> DialerPreamble("B", TRUE) \o e1.ep \o e2.ep,
         srv |-> e1.srv \o e2.srv]

InitRelay ==
    /\ sess = [i \in SessIds |-> IF i \in Relays THEN EstablishedEffects(i).s ELSE Idle(i)]
    /\ ep_out = [i \in SessIds |-> IF i \in Relays THEN EstablishedEffects(i).ep ELSE << >>]
    /\ srv = [i \in SessIds |-> IF i \in Relays THEN EstablishedEffects(i).srv ELSE << >>]
    /\ out = [i \in SessIds |-> << >>]
    /\ cmds = [i \in SessIds |-> << >>]
    /\ rd = [i \in SessIds |-> 0]
    /\ crd = [i \in SessIds |-> 0]
    /\ srd = [i \in SessIds |-> Len(srv[i])]
    /\ peer_list = [n \in PeerIds |-> IF n = "B" THEN {"A", "C"} ELSE {}]
    /\ nat_addr = ObservedAddr
    /\ nat_local = PeerOf("A")
    /\ nat_result = PeerOf("A")
    /\ fn_in = NoEvent
    /\ fn_out = NoEvent
    /\ sending = [i \in SessIds |-> NoEvent]
    /\ last = Last("init", NoEvent)

\* The commands in session j's channel that it has not read.
Queued(j) == Len(cmds[j]) - crd[j]

\* Session i reads a Data frame of its remote peer for the peer to, and its
\* handler comes to the send into the channel the registry holds for to.
RelayRecv(i) ==
    /\ sess[i].pc = "loop"
    /\ sending[i] = NoEvent
    /\ rd[i] < MaxFrames
    /\ \E to \in {"A", "C"}, p \in Payloads :
        \E e \in {OnEndpoint(sess[i], peer_list["B"],
                             Bytes(STData(SessRemote[i], to, encrypt(sess[i].session_key, p))))} :
            /\ Len(ep_out[i]) + Len(e.ep) <= MaxOut
            /\ Apply(i, [e EXCEPT !.relay = << >>])
            /\ sending' = [sending EXCEPT ![i] = IF e.relay = << >> THEN NoEvent
                                                  ELSE e.relay[1]]
    /\ rd' = [rd EXCEPT ![i] = @ + 1]
    /\ UNCHANGED <<crd, srd, peer_list, nat_addr, nat_local, nat_result, fn_in, fn_out, last>>

\* The send of session i completes: the target's channel has room.
RelaySend(i) ==
    /\ sending[i] # NoEvent
    /\ \E j \in {SessAt("B", sending[i].to)} :
        /\ Queued(j) < ChanCap
        /\ cmds' = [cmds EXCEPT ![j] = Append(@, sending[i].msg)]
    /\ sending' = [sending EXCEPT ![i] = NoEvent]
    /\ UNCHANGED <<sess, ep_out, srv, out, rd, crd, srd, peer_list,
                   nat_addr, nat_local, nat_result, fn_in, fn_out, last>>

\* Session i, not in the middle of a send, reads the next command of its
\* channel.
RelayCmd(i) ==
    /\ sess[i].pc = "loop"
    /\ sending[i] = NoEvent
    /\ crd[i] < Len(cmds[i])
    /\ \E e \in {OnCommand(sess[i], peer_list["B"], cmds[i][crd[i] + 1])} :
        Len(ep_out[i]) + Len(e.ep) <= MaxOut + MaxFrames /\ Apply(i, e)
    /\ crd' = [crd EXCEPT ![i] = @ + 1]
    /\ UNCHANGED <<rd, srd, peer_list, natvars, last>>

NextRelay == \E i \in Relays : RelayRecv(i) \/ RelaySend(i) \/ RelayCmd(i)

\* Every session is a task of its own: a send that can complete does, and a
\* session that can read its channel does.
FairnessRelay == \A i \in Relays : WF_vars(RelaySend(i)) /\ WF_vars(RelayCmd(i))

SpecRelay == InitRelay /\ [][NextRelay]_vars /\ FairnessRelay

\* C24 (as claimed): with bounded command channels every relay a session
\* starts to send into another channel, or into its own, is eventually sent.
C24_RelayCompletes ==
    \A i \in Relays : (sending[i] # NoEvent) ~> (sending[i] = NoEvent)

\* How far the session is: awaiting the handshake, unkeyed, keyed, closed.
Phase(s) ==
    CASE s.pc = "handshake" -> 0
      [] s.pc = "loop" /\ ~is_ok(s.session_key) -> 1
      [] s.pc = "loop" /\ is_ok(s.session_key) -> 2
      [] OTHER -> 3

\* The session has passed the handshake.
PastHandshake == sess[S].remote_peer_id # NoPeer

====
